---- MODULE Spec2Model ----
(***************************************************************************)
(* Model of some.rs (src/src/main.rs): a pager wrapper that reads a prefix *)
(* of its input, decides whether the input fits the terminal, and either   *)
(* prints it or streams it to a spawned pager.                             *)
(***************************************************************************)
EXTENDS Integers, Sequences, FiniteSets, TLC

\* ---------------------------------------------------------------- bytes
ESC == 27
LBRACKET == 91
LOWER_M == 109
NEWLINE == 10
CSI_FIRST == 194
CSI_SECOND == 155
DIGIT_0 == 48
DIGIT_9 == 57
SEMICOLON == 59

LOWER_A == 97

\* ---------------------------------------------------------------- bounds
\* longest input the source delivers
MaxLen == 3
\* widths 1..MaxWidth and heights MinHeight..MaxHeight are the small terminals
MaxWidth == 2
MinHeight == 3
MaxHeight == 5
\* one wide terminal whose width * usable_height does not fit 16 bits
WrapWidth == 32768
WrapHeight == 5

\* longest argument of visible_length and lines_used, and the widest terminal,
\* in the function spec
MaxLineLen == 4
MaxCols == 3

\* most bytes read_prefix is followed through on a source without end
MaxFill == 8

\* bytes the source may deliver: an escape lead-in, '[', 'm' and newline
\* ('[' and 'm' count as ordinary text outside a sequence)
Alphabet == {ESC, LBRACKET, LOWER_M, NEWLINE}

RECURSIVE SeqsUpTo(_)
SeqsUpTo(n) ==
    IF n = 0 THEN {<<>>}
    ELSE LET S == SeqsUpTo(n - 1)
         IN  S \cup {Append(s, b) : s \in {t \in S : Len(t) = n - 1}, b \in Alphabet}

Inputs == SeqsUpTo(MaxLen)

NoGeometry == <<0, 0>>
\* terminal_size() reports only positive widths and heights (spec section 3)
Geometries ==
    {<<w, h>> : w \in 1..MaxWidth, h \in MinHeight..MaxHeight}
        \cup {<<WrapWidth, WrapHeight>>}

\* ---------------------------------------------------------------- helpers
saturating_sub(a, b) == IF a > b THEN a - b ELSE 0
U16 == 65536

\* ------------------------------------------------ visible_length (24-60)
Normal == [tag |-> "Normal", pos |-> 0]
Esc == [tag |-> "Esc", pos |-> 0]
Csi == [tag |-> "Csi", pos |-> 0]
MidSequence(n) == [tag |-> "MidSequence", pos |-> n]

\* one arm of the match over (state, byte): the next state and the columns added
vl_step(state, c) ==
    CASE state.tag = "Normal" /\ c = ESC -> [state |-> Esc, add |-> 0]
      [] state.tag = "Normal" /\ c = CSI_FIRST -> [state |-> Csi, add |-> 0]
      [] state.tag = "Normal" /\ c \notin {ESC, CSI_FIRST} -> [state |-> Normal, add |-> 1]
      [] state.tag = "Esc" /\ c = LBRACKET -> [state |-> MidSequence(2), add |-> 0]
      [] state.tag = "Esc" /\ c # LBRACKET -> [state |-> Normal, add |-> 2]
      [] state.tag = "Csi" /\ c = CSI_SECOND -> [state |-> MidSequence(2), add |-> 0]
      [] state.tag = "Csi" /\ c # CSI_SECOND -> [state |-> Normal, add |-> 2]
      [] state.tag = "MidSequence" /\ (c \in DIGIT_0..DIGIT_9 \/ c = SEMICOLON)
            -> [state |-> MidSequence(state.pos + 1), add |-> 0]
      [] state.tag = "MidSequence" /\ c = LOWER_M -> [state |-> Normal, add |-> 0]
      [] OTHER -> [state |-> Normal, add |-> state.pos + 1]

\* the end-of-input contribution left out
vl_final_zero(state) == 0

\* end-of-input contribution of the state left by the scan
vl_final(state) ==
    CASE state.tag = "Normal" -> 0
      [] state.tag \in {"Esc", "Csi"} -> 1
      [] OTHER -> state.pos

RECURSIVE vl_fold(_, _, _, _)
vl_fold(line, i, state, sum) ==
    IF i > Len(line) THEN sum + vl_final(state)
    ELSE \* r is the one result of this byte's arm; the scan goes on from it
         CHOOSE total \in {vl_fold(line, i + 1, r.state, sum + r.add) :
                              r \in {vl_step(state, line[i])}} : TRUE

visible_length(line) == vl_fold(line, 1, Normal, 0)

\* ------------------------------------------------ lines_used (92-130)
\* buf.split(|c| *c == b'\n'): the segments between newlines, in order
RECURSIVE split_from(_, _, _)
split_from(b, i, cur) ==
    IF i > Len(b) THEN <<cur>>
    ELSE IF b[i] = NEWLINE THEN <<cur>> \o split_from(b, i + 1, <<>>)
    ELSE split_from(b, i + 1, Append(cur, b[i]))

split(b) == split_from(b, 1, <<>>)

\* the subtraction of 1 left out
line_rows_no_sub(line, width) == (visible_length(line) \div width) + 1
\* the remainder taken in place of the quotient
line_rows_mod(line, width) == (saturating_sub(visible_length(line), 1) % width) + 1

line_rows(line, width) == (saturating_sub(visible_length(line), 1) \div width) + 1

RECURSIVE sum_rows(_, _, _)
sum_rows(segs, i, width) ==
    IF i > Len(segs) THEN 0
    ELSE line_rows(segs[i], width) + sum_rows(segs, i + 1, width)

lines_used(b, width) == sum_rows(split(b), 1, width)

\* ------------------------------------------------ Vec<u8> with a zero tail
\* A Vec<u8> whose unfilled tail is all zeros, kept as the filled bytes and the
\* number of zero bytes after them (vec![0; n] is <<>> followed by n zeros).
vec_zeros(n) == [data |-> <<>>, pad |-> n]
vec_len(v) == Len(v.data) + v.pad
vec_bytes(v) == v.data \o [i \in 1..v.pad |-> 0]
\* &buf[..n]
slice_to(v, n) ==
    IF n <= Len(v.data) THEN SubSeq(v.data, 1, n)
    ELSE v.data \o [i \in 1..(n - Len(v.data)) |-> 0]
\* the truncation one byte short: the last byte read is cut off
truncate_short(v, n) ==
    [data |-> SubSeq(v.data, 1, IF n >= 1 THEN n - 1 ELSE 0), pad |-> 0]
\* the truncation left out: the zero tail stays in the Vec
truncate_noop(v, n) == v
\* buf.truncate(n)
truncate(v, n) ==
    IF n >= vec_len(v) THEN v
    ELSE IF n <= Len(v.data) THEN [data |-> SubSeq(v.data, 1, n), pad |-> 0]
    ELSE [data |-> v.data, pad |-> n - Len(v.data)]
\* buf.extend(vec![0; n])
extend(v, n) == [data |-> v.data, pad |-> v.pad + n]
\* file.read(&mut buf[n..]) storing chunk at offset n
store_at(v, n, chunk) ==
    [data |-> slice_to(v, n) \o chunk, pad |-> vec_len(v) - n - Len(chunk)]

\* ------------------------------------------------ geometry arithmetic
usable_height(height) == saturating_sub(height, 3)
\* width * usable_height in u16: the value a build without overflow checks keeps
block_size(width, height) == (width * usable_height(height)) % U16
\* the multiplication does not fit u16
mul_overflows(width, height) == width * usable_height(height) >= U16

\* ------------------------------------------------ program constants
ChunkSize == 16 * 1024
PanicCode == 101
PagerCodes == {0, 2}

\* ---------------------------------------------------------------- state
VARIABLES
    input,      \* the bytes the source holds
    pos,        \* bytes already consumed from the source
    geom,       \* terminal_size(): <<width, height>> or NoGeometry
    buf,        \* read_prefix: buf
    len,        \* read_prefix: len
    lastLen,    \* len before the most recent successful read (<<>> if none)
    lastRead,   \* outcome of the most recent read call
    result,     \* what read_prefix returned
    pc,         \* position of the wrapper
    stdout,     \* bytes that reached standard output
    stdoutBuf,  \* bytes held by the line buffer of io::stdout()
    stdoutWrite,\* outcome of write_all on standard output
    stdoutFlush,\* outcome of the flush of the line buffer when the process ends
    stderr,     \* diagnostic printed to the error stream
    sigint,     \* disposition of SIGINT
    sigchld,    \* disposition of SIGCHLD the process was started with
    pager,      \* "none", "running", "exited"
    pagerCode,  \* <<c>> when the pager exited with code c, <<>> otherwise
    pipeW,      \* the wrapper's end of the pager's input pipe
    pipeR,      \* the pager's end of its input pipe
    pagerIn,    \* bytes written to the pager's input pipe
    pending,    \* bytes the write_all in progress has still to write to the pipe
    exitCode,   \* <<c>> once the wrapper exited with status c
    exitVia,    \* how the wrapper left main
    first,      \* outcome of an earlier run of read_prefix (two-run spec)
    endless,    \* TRUE when the source repeats its bytes without end
    line,       \* argument of visible_length and lines_used (function spec)
    vlen,       \* visible_length(line), once computed
    rows,       \* lines_used(line, w) for each width w, once computed
    fpc         \* position of the function spec

vars == <<input, pos, geom, buf, len, lastLen, lastRead, result, pc, stdout,
          stdoutBuf, stdoutWrite, stdoutFlush, stderr, sigint, pager, pagerCode,
          pipeW, pipeR, pagerIn, pending, exitCode, exitVia, first, endless, line,
          vlen, rows, fpc, sigchld>>

\* what no step of main changes
auxVars == <<endless, line, vlen, rows, fpc, sigchld>>
readerVars == <<buf, len, lastLen, lastRead, result, pos>>
stdoutVars == <<stdout, stdoutBuf, stdoutWrite, stdoutFlush>>
outVars == <<stdoutVars, stderr, exitCode, exitVia>>
pagerVars == <<pager, pagerCode, pipeW, pipeR, pagerIn, pending>>

NoResult == [tag |-> "None", buf |-> <<>>]
All(b) == [tag |-> "All", buf |-> b]
Part(b) == [tag |-> "Part", buf |-> b]
Err(b) == [tag |-> "Err", buf |-> b]

width == geom[1]
height == geom[2]

\* the program before main has run
InitProgram ==
    /\ pos = 0
    /\ buf = vec_zeros(0)
    /\ len = 0
    /\ lastLen = <<>>
    /\ lastRead = "none"
    /\ result = NoResult
    /\ pc = "open"
    /\ stdout = <<>>
    /\ stdoutBuf = <<>>
    /\ stdoutWrite = "none"
    /\ stdoutFlush = "none"
    /\ stderr = "none"
    /\ pager = "none"
    /\ pagerCode = <<>>
    /\ pipeW = "none"
    /\ pipeR = "none"
    /\ pagerIn = <<>>
    /\ pending = <<>>
    /\ exitCode = <<>>
    /\ exitVia = "none"
    /\ first = NoResult

\* the function spec is idle
InitNoCall ==
    /\ line = <<>> /\ vlen = 0 /\ rows = <<>> /\ fpc = "off"

\* the dispositions of SIGINT and SIGCHLD are inherited from the parent process
Dispositions == {"default", "ignore"}

Init ==
    /\ input \in Inputs
    /\ geom \in Geometries \cup {NoGeometry}
    /\ sigint \in Dispositions
    /\ sigchld \in Dispositions
    /\ endless = FALSE
    /\ InitProgram
    /\ InitNoCall

\* main is left by a return or by a panic: the message, if any, is on the
\* error stream, the locals are dropped (the ChildStdin closes the pipe's
\* write end), and the process goes on to end
LeaveMain(via, msg) ==
    /\ exitVia' = via
    /\ stderr' = msg
    /\ pc' = "exiting"
    /\ pipeW' = IF pipeW = "open" THEN "closed" ELSE pipeW
    /\ UNCHANGED exitCode

Panic(msg) == LeaveMain("panic", msg)
Return == LeaveMain("return", stderr)

\* lines 205-208: the source is standard input, or FILE was opened
OpenOk ==
    /\ pc = "open"
    /\ pc' = "read_prefix"
    /\ UNCHANGED <<auxVars, input, geom, sigint, first>>
    /\ UNCHANGED readerVars /\ UNCHANGED outVars /\ UNCHANGED pagerVars

\* line 206: FILE cannot be opened
OpenFail ==
    /\ pc = "open"
    /\ Panic("Could not open file")
    /\ UNCHANGED <<auxVars, input, geom, sigint, first, pager, pagerCode, pipeR, pagerIn, pending>>
    /\ UNCHANGED stdoutVars /\ UNCHANGED readerVars

OpenStep == OpenOk \/ OpenFail

\* ------------------------------------------------ the source (205-208)
\* A source either holds the bytes of input and then reports its end, or
\* (endless) delivers the bytes of input again and again and has no end.
source_at_end == ~endless /\ pos = Len(input)
source_available == IF endless THEN MaxLen ELSE Len(input) - pos
\* n bytes of the repeated input from source position p on
RECURSIVE cycle_bytes(_, _)
cycle_bytes(p, n) ==
    IF n = 0 THEN <<>>
    ELSE <<input[(p % Len(input)) + 1]>> \o cycle_bytes(p + 1, n - 1)

source_bytes(p, n) ==
    IF endless THEN cycle_bytes(p, n) ELSE SubSeq(input, p + 1, p + n)

\* ------------------------------------------------ read_prefix (165-201)
\* line 199 returning Contents::All in place of Contents::Part
ReadPrefixNoGeometryAll ==
    /\ pc = "read_prefix" /\ geom = NoGeometry
    /\ result' = All(<<>>)
    /\ pc' = "match"
    /\ UNCHANGED <<auxVars, input, pos, geom, buf, len, lastLen, lastRead, sigint, first>>
    /\ UNCHANGED outVars /\ UNCHANGED pagerVars

\* line 199: no terminal size, page at once
ReadPrefixNoGeometry ==
    /\ pc = "read_prefix" /\ geom = NoGeometry
    /\ result' = Part(<<>>)
    /\ pc' = "match"
    /\ UNCHANGED <<auxVars, input, pos, geom, buf, len, lastLen, lastRead, sigint, first>>
    /\ UNCHANGED outVars /\ UNCHANGED pagerVars

\* lines 166-169: allocate one block
ReadPrefixAlloc ==
    /\ pc = "read_prefix" /\ geom # NoGeometry
    /\ buf' = vec_zeros(block_size(width, height))
    /\ len' = 0
    /\ pc' = "loop"
    /\ UNCHANGED <<auxVars, input, pos, geom, lastLen, lastRead, result, sigint, first>>
    /\ UNCHANGED outVars /\ UNCHANGED pagerVars

\* line 168 in a build with overflow checks: the multiplication panics
ReadPrefixMulPanic ==
    /\ pc = "read_prefix" /\ geom # NoGeometry
    /\ mul_overflows(width, height)
    /\ Panic("attempt to multiply with overflow")
    /\ UNCHANGED <<auxVars, input, geom, sigint, first, pager, pagerCode, pipeR, pagerIn, pending>>
    /\ UNCHANGED stdoutVars /\ UNCHANGED readerVars

\* the loop condition never failing
fits_always(b, n) == TRUE
\* the loop condition with < in place of <=
fits_strict(b, n) == lines_used(slice_to(b, n), width) < usable_height(height)
\* line 170: the loop condition
fits(b, n) == lines_used(slice_to(b, n), width) <= usable_height(height)

\* lines 195-196: the loop condition failed
ReadPrefixPart ==
    /\ pc = "loop" /\ ~fits(buf, len)
    /\ buf' = truncate(buf, len)
    /\ result' = Part(vec_bytes(buf'))
    /\ pc' = "match"
    /\ UNCHANGED <<auxVars, input, pos, geom, len, lastLen, lastRead, sigint, first>>
    /\ UNCHANGED outVars /\ UNCHANGED pagerVars

\* lines 172-175: read returned Ok(0): the source is at its end, or the slice
\* handed to read is empty
ReadPrefixEof ==
    /\ pc = "loop" /\ fits(buf, len)
    /\ (source_at_end \/ vec_len(buf) - len = 0)
    /\ buf' = truncate(buf, len)
    /\ result' = All(vec_bytes(buf'))
    /\ lastRead' = "eof"
    /\ pc' = "match"
    /\ UNCHANGED <<auxVars, input, pos, geom, len, lastLen, sigint, first>>
    /\ UNCHANGED outVars /\ UNCHANGED pagerVars

\* lines 176-185: read returned Ok(n), n > 0
ReadPrefixData(n) ==
    /\ pc = "loop" /\ fits(buf, len)
    /\ n >= 1 /\ n <= source_available /\ n <= vec_len(buf) - len
    /\ endless => len + n <= MaxFill
    /\ LET chunk == source_bytes(pos, n)
           filled == store_at(buf, len, chunk)
       IN  /\ len' = len + n
           /\ buf' = IF len + n = vec_len(filled)
                        THEN extend(filled, block_size(width, height))
                        ELSE filled
    /\ pos' = pos + n
    /\ lastLen' = <<len>>
    /\ lastRead' = "data"
    /\ UNCHANGED <<auxVars, input, geom, result, pc, sigint, first>>
    /\ UNCHANGED outVars /\ UNCHANGED pagerVars

\* the Interrupted arm left out: the interruption is returned as an error
ReadPrefixInterruptedSurfaced ==
    /\ pc = "loop" /\ fits(buf, len)
    /\ buf' = truncate(buf, len)
    /\ result' = Err(vec_bytes(buf'))
    /\ lastRead' = "interrupted"
    /\ pc' = "match"
    /\ UNCHANGED <<auxVars, input, pos, geom, len, lastLen, sigint, first>>
    /\ UNCHANGED outVars /\ UNCHANGED pagerVars

\* lines 186-188: interrupted, retry
ReadPrefixInterrupted ==
    /\ pc = "loop" /\ fits(buf, len)
    /\ lastRead' = "interrupted"
    /\ UNCHANGED <<auxVars, input, pos, geom, buf, len, lastLen, result, pc, sigint, first>>
    /\ UNCHANGED outVars /\ UNCHANGED pagerVars

\* lines 189-192: any other read error
ReadPrefixError ==
    /\ pc = "loop" /\ fits(buf, len)
    /\ buf' = truncate(buf, len)
    /\ result' = Err(vec_bytes(buf'))
    /\ lastRead' = "error"
    /\ pc' = "match"
    /\ UNCHANGED <<auxVars, input, pos, geom, len, lastLen, sigint, first>>
    /\ UNCHANGED outVars /\ UNCHANGED pagerVars

ReadPrefixStep ==
    \/ ReadPrefixNoGeometry
    \/ ReadPrefixAlloc
    \/ ReadPrefixMulPanic
    \/ ReadPrefixPart
    \/ ReadPrefixEof
    \/ \E n \in 1..MaxLen : ReadPrefixData(n)
    \/ ReadPrefixInterrupted
    \/ ReadPrefixError

\* ------------------------------------------------ main (203-271)
\* what write_all leaves behind when it fails: some proper prefix of the bytes
ProperPrefixes(b) == {SubSeq(b, 1, k) : k \in 0..(Len(b) - 1)}

\* io::stdout() is line buffered: write_all hands the bytes up to and including
\* the last newline to the descriptor and keeps the rest in a buffer of
\* StdoutCapacity bytes until the process ends; a rest that does not fit the
\* buffer is handed to the descriptor as well
StdoutCapacity == 1024
last_newline(b) ==
    IF \E i \in 1..Len(b) : b[i] = NEWLINE
    THEN CHOOSE i \in 1..Len(b) :
            b[i] = NEWLINE /\ \A j \in (i + 1)..Len(b) : b[j] # NEWLINE
    ELSE 0
stdout_rest(b) == SubSeq(b, last_newline(b) + 1, Len(b))
\* the bytes write_all writes to the descriptor
stdout_written(b) ==
    IF Len(stdout_rest(b)) >= StdoutCapacity THEN b
    ELSE SubSeq(b, 1, last_newline(b))
\* the bytes write_all leaves in the line buffer
stdout_held(b) ==
    IF Len(stdout_rest(b)) >= StdoutCapacity THEN <<>> ELSE stdout_rest(b)

\* lines 210-212: Contents::All, write_all on stdout returns Ok, main returns
ShowAllOk ==
    /\ pc = "match" /\ result.tag = "All"
    /\ stdout' = stdout \o stdout_written(result.buf)
    /\ stdoutBuf' = stdout_held(result.buf)
    /\ stdoutWrite' = "ok"
    /\ Return
    /\ UNCHANGED <<auxVars, input, geom, sigint, first, stdoutFlush>>
    /\ UNCHANGED <<pager, pagerCode, pipeR, pagerIn, pending>>
    /\ UNCHANGED readerVars

\* line 213: stdout was closed by its reader
ShowAllBrokenPipe ==
    /\ pc = "match" /\ result.tag = "All"
    /\ Len(stdout_written(result.buf)) > 0
    /\ \E w \in ProperPrefixes(stdout_written(result.buf)) : stdout' = stdout \o w
    /\ stdoutWrite' = "broken_pipe"
    /\ Return
    /\ UNCHANGED <<auxVars, input, geom, sigint, first, stdoutBuf, stdoutFlush>>
    /\ UNCHANGED <<pager, pagerCode, pipeR, pagerIn, pending>>
    /\ UNCHANGED readerVars

\* line 214: any other write error
ShowAllWriteError ==
    /\ pc = "match" /\ result.tag = "All"
    /\ Len(stdout_written(result.buf)) > 0
    /\ \E w \in ProperPrefixes(stdout_written(result.buf)) : stdout' = stdout \o w
    /\ stdoutWrite' = "error"
    /\ Panic("Could not write output")
    /\ UNCHANGED <<auxVars, input, geom, sigint, first, stdoutBuf, stdoutFlush>>
    /\ UNCHANGED <<pager, pagerCode, pipeR, pagerIn, pending>>
    /\ UNCHANGED readerVars

\* lines 262-264, 268: the prefix read failed, write_all on stdout returns Ok,
\* panic
PrefixErrFlushOk ==
    /\ pc = "match" /\ result.tag = "Err"
    /\ stdout' = stdout \o stdout_written(result.buf)
    /\ stdoutBuf' = stdout_held(result.buf)
    /\ stdoutWrite' = "ok"
    /\ Panic("Could not read from file")
    /\ UNCHANGED <<auxVars, input, geom, sigint, first, stdoutFlush>>
    /\ UNCHANGED <<pager, pagerCode, pipeR, pagerIn, pending>>
    /\ UNCHANGED readerVars

\* line 265: the write hits a closed stdout, main returns
PrefixErrFlushBrokenPipe ==
    /\ pc = "match" /\ result.tag = "Err"
    /\ Len(stdout_written(result.buf)) > 0
    /\ \E w \in ProperPrefixes(stdout_written(result.buf)) : stdout' = stdout \o w
    /\ stdoutWrite' = "broken_pipe"
    /\ Return
    /\ UNCHANGED <<auxVars, input, geom, sigint, first, stdoutBuf, stdoutFlush>>
    /\ UNCHANGED <<pager, pagerCode, pipeR, pagerIn, pending>>
    /\ UNCHANGED readerVars

\* lines 266, 268: the write fails otherwise, the failure is dropped, panic
PrefixErrFlushError ==
    /\ pc = "match" /\ result.tag = "Err"
    /\ Len(stdout_written(result.buf)) > 0
    /\ \E w \in ProperPrefixes(stdout_written(result.buf)) : stdout' = stdout \o w
    /\ stdoutWrite' = "error"
    /\ Panic("Could not read from file")
    /\ UNCHANGED <<auxVars, input, geom, sigint, first, stdoutBuf, stdoutFlush>>
    /\ UNCHANGED <<pager, pagerCode, pipeR, pagerIn, pending>>
    /\ UNCHANGED readerVars

\* the signal call left out
IgnoreSigintSkipped ==
    /\ pc = "match" /\ result.tag = "Part"
    /\ pc' = "spawn"
    /\ UNCHANGED <<auxVars, input, geom, first, sigint>>
    /\ UNCHANGED readerVars /\ UNCHANGED outVars /\ UNCHANGED pagerVars

\* lines 217-229: Contents::Part, SIGINT is ignored from here on
IgnoreSigint ==
    /\ pc = "match" /\ result.tag = "Part"
    /\ sigint' = "ignore"
    /\ pc' = "spawn"
    /\ UNCHANGED <<auxVars, input, geom, first>>
    /\ UNCHANGED readerVars /\ UNCHANGED outVars /\ UNCHANGED pagerVars

\* lines 230-236: the pager starts with a pipe as its input, and the write of
\* the prefix begins
SpawnOk ==
    /\ pc = "spawn"
    /\ pager' = "running" /\ pipeW' = "open" /\ pipeR' = "open"
    /\ pending' = result.buf
    /\ pc' = "write_prefix"
    /\ UNCHANGED <<auxVars, input, geom, sigint, first, pagerCode, pagerIn>>
    /\ UNCHANGED readerVars /\ UNCHANGED outVars

\* line 230: PAGER holds no word, &pager[0] is out of bounds
SpawnNoProgram ==
    /\ pc = "spawn"
    /\ Panic("index out of bounds: the len is 0 but the index is 0")
    /\ UNCHANGED <<auxVars, input, geom, sigint, first, pager, pagerCode, pipeR, pagerIn, pending>>
    /\ UNCHANGED stdoutVars /\ UNCHANGED readerVars

\* line 234: the pager cannot be started
SpawnFail ==
    /\ pc = "spawn"
    /\ Panic("Could not start pager")
    /\ UNCHANGED <<auxVars, input, geom, sigint, first, pager, pagerCode, pipeR, pagerIn, pending>>
    /\ UNCHANGED stdoutVars /\ UNCHANGED readerVars

\* one write call of a write_all on the pipe: the pipe takes the first k of
\* the bytes still to be written
pipe_write(k) ==
    /\ pending # <<>> /\ pipeR = "open"
    /\ k >= 1 /\ k <= Len(pending)
    /\ pagerIn' = pagerIn \o SubSeq(pending, 1, k)
    /\ pending' = SubSeq(pending, k + 1, Len(pending))

\* line 236: a write call of stdin.write_all(&buf) puts k bytes into the pipe
WritePrefixWrite(k) ==
    /\ pc = "write_prefix"
    /\ pipe_write(k)
    /\ UNCHANGED <<auxVars, input, geom, pc, sigint, first, pager, pagerCode, pipeW, pipeR>>
    /\ UNCHANGED readerVars /\ UNCHANGED outVars

\* lines 236-237: the whole prefix is in the pipe
WritePrefixOk ==
    /\ pc = "write_prefix"
    /\ pending = <<>>
    /\ pc' = "stream"
    /\ UNCHANGED <<auxVars, input, geom, sigint, first>>
    /\ UNCHANGED readerVars /\ UNCHANGED outVars /\ UNCHANGED pagerVars

\* line 238: the pager closed its input, main returns
WritePrefixBrokenPipe ==
    /\ pc = "write_prefix"
    /\ pending # <<>> /\ pipeR = "closed"
    /\ Return
    /\ UNCHANGED <<auxVars, input, geom, sigint, first, pager, pagerCode, pipeR, pagerIn, pending>>
    /\ UNCHANGED stdoutVars /\ UNCHANGED readerVars

\* line 239: any other write error
WritePrefixError ==
    /\ pc = "write_prefix"
    /\ pending # <<>> /\ pipeR = "open"
    /\ Panic("Could not write to pager")
    /\ UNCHANGED <<auxVars, input, geom, sigint, first, pager, pagerCode, pipeR, pagerIn, pending>>
    /\ UNCHANGED stdoutVars /\ UNCHANGED readerVars

\* one byte short of the bytes read
chunk_written_short(inp, p, n) == SubSeq(inp, p + 1, p + n - 1)
\* lines 245, 248: &buf[..n] after a read of n bytes at source position p
chunk_written(inp, p, n) == SubSeq(inp, p + 1, p + n)

\* lines 245-246: the source is at its end, leave the loop
StreamEof ==
    /\ pc = "stream" /\ pos = Len(input)
    /\ lastRead' = "eof"
    /\ pc' = "drop_stdin"
    /\ UNCHANGED <<auxVars, input, pos, geom, buf, len, lastLen, result, sigint, first>>
    /\ UNCHANGED outVars /\ UNCHANGED pagerVars

\* lines 245, 247-248: a chunk of n bytes is read, its write begins
StreamRead(n) ==
    /\ pc = "stream"
    /\ n >= 1 /\ n <= Len(input) - pos /\ n <= ChunkSize
    /\ pos' = pos + n
    /\ lastRead' = "data"
    /\ pending' = chunk_written(input, pos, n)
    /\ pc' = "stream_write"
    /\ UNCHANGED <<auxVars, input, geom, buf, len, lastLen, result, sigint, first>>
    /\ UNCHANGED <<pager, pagerCode, pipeW, pipeR, pagerIn>>
    /\ UNCHANGED outVars

\* line 248: a write call of stdin.write_all(&buf[..n]) puts k bytes into the
\* pipe
StreamChunkWrite(k) ==
    /\ pc = "stream_write"
    /\ pipe_write(k)
    /\ UNCHANGED <<auxVars, input, geom, pc, sigint, first, pager, pagerCode, pipeW, pipeR>>
    /\ UNCHANGED readerVars /\ UNCHANGED outVars

\* lines 248-249: the whole chunk is in the pipe, on to the next read
StreamChunkOk ==
    /\ pc = "stream_write"
    /\ pending = <<>>
    /\ pc' = "stream"
    /\ UNCHANGED <<auxVars, input, geom, sigint, first>>
    /\ UNCHANGED readerVars /\ UNCHANGED outVars /\ UNCHANGED pagerVars

\* line 250: the pager closed its input, main returns
StreamChunkBrokenPipe ==
    /\ pc = "stream_write"
    /\ pending # <<>> /\ pipeR = "closed"
    /\ Return
    /\ UNCHANGED <<auxVars, input, geom, sigint, first, pager, pagerCode, pipeR, pagerIn, pending>>
    /\ UNCHANGED stdoutVars /\ UNCHANGED readerVars

\* line 251: any other write error
StreamChunkWriteError ==
    /\ pc = "stream_write"
    /\ pending # <<>> /\ pipeR = "open"
    /\ Panic("Could not write to pager")
    /\ UNCHANGED <<auxVars, input, geom, sigint, first, pager, pagerCode, pipeR, pagerIn, pending>>
    /\ UNCHANGED stdoutVars /\ UNCHANGED readerVars

\* line 254: interrupted, retry
StreamInterrupted ==
    /\ pc = "stream"
    /\ lastRead' = "interrupted"
    /\ UNCHANGED <<auxVars, input, pos, geom, buf, len, lastLen, result, pc, sigint, first>>
    /\ UNCHANGED outVars /\ UNCHANGED pagerVars

\* line 255: any other read error
StreamReadError ==
    /\ pc = "stream"
    /\ lastRead' = "error"
    /\ Panic("Could not read from file")
    /\ UNCHANGED <<auxVars, input, pos, geom, buf, len, lastLen, result, sigint, first>>
    /\ UNCHANGED <<pager, pagerCode, pipeR, pagerIn, pending>>
    /\ UNCHANGED stdoutVars

\* the drop left out: the wait starts with the write end open
DropStdinForgotten ==
    /\ pc = "drop_stdin"
    /\ pc' = "wait"
    /\ UNCHANGED <<auxVars, input, geom, sigint, first, pager, pagerCode, pipeW, pipeR, pagerIn, pending>>
    /\ UNCHANGED readerVars /\ UNCHANGED outVars

\* line 258: the pipe's write end is closed
DropStdin ==
    /\ pc = "drop_stdin"
    /\ pipeW' = "closed"
    /\ pc' = "wait"
    /\ UNCHANGED <<auxVars, input, geom, sigint, first, pager, pagerCode, pipeR, pagerIn, pending>>
    /\ UNCHANGED readerVars /\ UNCHANGED outVars

\* line 260: code().unwrap_or(1) of the pager's exit status
exit_status(code) == IF code = <<>> THEN 1 ELSE code[1]

\* line 260: wait returns the pager's status once the pager has terminated,
\* and process::exit is called with the pager's code
WaitExit ==
    /\ pc = "wait" /\ pager = "exited"
    /\ sigchld = "default"
    /\ exitVia' = "exit"
    /\ pc' = "exiting"
    /\ UNCHANGED <<auxVars, input, geom, sigint, first, stderr, exitCode>>
    /\ UNCHANGED stdoutVars /\ UNCHANGED readerVars /\ UNCHANGED pagerVars

\* line 260: with SIGCHLD ignored the terminated pager leaves no status: wait
\* returns Err once the pager has terminated, and unwrap panics
WaitFail ==
    /\ pc = "wait" /\ pager = "exited"
    /\ sigchld = "ignore"
    /\ Panic("called Result::unwrap() on an Err value")
    /\ UNCHANGED <<auxVars, input, geom, sigint, first, pager, pagerCode, pipeR, pagerIn, pending>>
    /\ UNCHANGED stdoutVars /\ UNCHANGED readerVars

MainStep ==
    \/ ShowAllOk \/ ShowAllBrokenPipe \/ ShowAllWriteError
    \/ PrefixErrFlushOk \/ PrefixErrFlushBrokenPipe \/ PrefixErrFlushError
    \/ IgnoreSigint \/ SpawnOk \/ SpawnNoProgram \/ SpawnFail
    \/ \E k \in 1..MaxLen : WritePrefixWrite(k)
    \/ WritePrefixOk \/ WritePrefixBrokenPipe \/ WritePrefixError
    \/ StreamEof
    \/ \E n \in 1..MaxLen : StreamRead(n)
    \/ \E k \in 1..MaxLen : StreamChunkWrite(k)
    \/ StreamChunkOk \/ StreamChunkBrokenPipe \/ StreamChunkWriteError
    \/ StreamInterrupted \/ StreamReadError
    \/ DropStdin \/ WaitExit \/ WaitFail

\* ------------------------------------------------ the end of the process
\* the status the process ends with: 0 after a return from main, 101 after a
\* panic, the pager's after process::exit
exit_code ==
    CASE exitVia = "panic" -> PanicCode
      [] exitVia = "exit" -> exit_status(pagerCode)
      [] OTHER -> 0

\* the bytes held by the line buffer are written to stdout, and the process
\* ends
ExitFlushOk ==
    /\ pc = "exiting"
    /\ stdout' = stdout \o stdoutBuf
    /\ stdoutBuf' = <<>>
    /\ stdoutFlush' = IF stdoutBuf = <<>> THEN "none" ELSE "ok"
    /\ exitCode' = <<exit_code>>
    /\ pc' = "done"
    /\ UNCHANGED <<auxVars, input, geom, sigint, first, stdoutWrite, stderr, exitVia>>
    /\ UNCHANGED readerVars /\ UNCHANGED pagerVars

\* the write of the held bytes fails: the failure is ignored, the bytes not
\* written are lost, the status is the same
ExitFlushFail ==
    /\ pc = "exiting"
    /\ stdoutBuf # <<>>
    /\ \E w \in ProperPrefixes(stdoutBuf) : stdout' = stdout \o w
    /\ stdoutBuf' = <<>>
    /\ stdoutFlush' = "error"
    /\ exitCode' = <<exit_code>>
    /\ pc' = "done"
    /\ UNCHANGED <<auxVars, input, geom, sigint, first, stdoutWrite, stderr, exitVia>>
    /\ UNCHANGED readerVars /\ UNCHANGED pagerVars

ExitStep == ExitFlushOk \/ ExitFlushFail

\* ------------------------------------------------ the pager process
\* the pager closes its input without exiting
PagerCloseInput ==
    /\ pager = "running" /\ pipeR = "open"
    /\ pipeR' = "closed"
    /\ UNCHANGED <<auxVars, input, geom, pc, sigint, first, pager, pagerCode, pipeW, pagerIn, pending>>
    /\ UNCHANGED readerVars /\ UNCHANGED outVars

\* the pager terminates with an exit code
PagerExit(c) ==
    /\ pager = "running"
    /\ pager' = "exited" /\ pagerCode' = <<c>> /\ pipeR' = "closed"
    /\ UNCHANGED <<auxVars, input, geom, pc, sigint, first, pipeW, pagerIn, pending>>
    /\ UNCHANGED readerVars /\ UNCHANGED outVars

\* the pager is terminated by a signal: it has no exit code
PagerKilled ==
    /\ pager = "running"
    /\ pager' = "exited" /\ pagerCode' = <<>> /\ pipeR' = "closed"
    /\ UNCHANGED <<auxVars, input, geom, pc, sigint, first, pipeW, pagerIn, pending>>
    /\ UNCHANGED readerVars /\ UNCHANGED outVars

PagerStep ==
    \/ PagerCloseInput
    \/ \E c \in PagerCodes : PagerExit(c)
    \/ PagerKilled

Next == OpenStep \/ ReadPrefixStep \/ MainStep \/ PagerStep \/ ExitStep

Spec == Init /\ [][Next]_vars

\* ------------------------------------------------ two runs of read_prefix
\* read_prefix has returned a decision; it is run again on a source that
\* delivers the same bytes, with the same geometry
SecondRun ==
    /\ pc = "match" /\ result.tag \in {"All", "Part"}
    /\ first = NoResult
    /\ first' = result
    /\ pos' = 0
    /\ buf' = vec_zeros(0)
    /\ len' = 0
    /\ lastLen' = <<>>
    /\ lastRead' = "none"
    /\ result' = NoResult
    /\ pc' = "read_prefix"
    /\ UNCHANGED <<auxVars, input, geom, sigint>>
    /\ UNCHANGED outVars /\ UNCHANGED pagerVars

NextTwice == OpenOk \/ ReadPrefixStep \/ SecondRun

SpecTwice == Init /\ [][NextTwice]_vars

\* ------------------------------------------------ fairness
\* wait returns when the pager has terminated, and a pager that reads to the
\* end of its input terminates once the pipe's write end is closed
PagerExitAtEof ==
    /\ pipeW = "closed"
    /\ \E c \in PagerCodes : PagerExit(c)

\* a process on its way out ends
FairSpec ==
    /\ Spec
    /\ WF_vars(WaitExit \/ WaitFail) /\ WF_vars(PagerExitAtEof) /\ WF_vars(ExitStep)

\* ------------------------------------------------ claims
IsPrefix(a, b) == Len(a) <= Len(b) /\ a = SubSeq(b, 1, Len(a))
known_geometry == geom # NoGeometry
streamed_to_end == pc \in {"drop_stdin", "wait"} \/ exitVia = "exit"

\* C1: on the Page path, once streaming has completed normally, the bytes
\* written to the pager's pipe are the whole input: the prefix returned by
\* read_prefix followed by the rest of the source, nothing lost, repeated or
\* reordered, however the source splits its data across reads.
C1_PagerReceivesInput ==
    streamed_to_end =>
        /\ pagerIn = input
        /\ IsPrefix(result.buf, pagerIn)
        /\ pagerIn = result.buf \o SubSeq(input, Len(result.buf) + 1, Len(input))

C1_Witness ==
    /\ exitVia = "exit"
    /\ Len(result.buf) > 0
    /\ Len(input) - Len(result.buf) >= 2

\* C2: with known geometry, read_prefix decides ShowAll when the whole input
\* needs at most usable_height rows and Page when it needs more, however the
\* source splits the input across reads.  Stated for the geometries whose
\* width * usable_height fits 16 bits; the others are the case of C3.
C2_DecisionMatchesWholeInput ==
    (/\ pc = "match" /\ known_geometry /\ result.tag \in {"All", "Part"}
     /\ ~mul_overflows(width, height)) =>
        /\ (lines_used(input, width) <= usable_height(height) => result.tag = "All")
        /\ (lines_used(input, width) > usable_height(height) => result.tag = "Part")

\* C3: read_prefix returns Contents::All only when the source is exhausted,
\* and the buffer it returns is then the entire input, for every 16-bit
\* geometry.
C3_ShowAllOnlyAtEnd ==
    result.tag = "All" => (pos = Len(input) /\ result.buf = input)

\* C4: with known geometry, when read_prefix returns Contents::Part the buffer
\* needs more than usable_height rows, the buffer as it stood before the last
\* successful read needed at most usable_height rows, and the source has been
\* read no further than the buffer.
C4_PageAtFirstOverflow ==
    (result.tag = "Part" /\ known_geometry) =>
        /\ lines_used(result.buf, width) > usable_height(height)
        /\ lastLen # <<>> =>
             lines_used(SubSeq(result.buf, 1, lastLen[1]), width) <= usable_height(height)
        /\ pc \in {"match", "spawn", "write_prefix"} => pos = Len(result.buf)

C4_Witness ==
    /\ pc = "match" /\ result.tag = "Part" /\ known_geometry
    /\ lastLen # <<>> /\ lastLen[1] >= 1
    /\ pos < Len(input)

both_decided == pc = "match" /\ first # NoResult /\ result.tag \in {"All", "Part"}
no_escape_lead_in == \A i \in 1..Len(input) : input[i] \notin {ESC, CSI_FIRST}

\* C5 (as stated): two runs of read_prefix over the same bytes and geometry
\* return the same variant and the same buffer, whatever each read returns.
C5_SameDecisionAnySplit ==
    both_decided => result = first

\* C5 (amended): across runs whose reads return different numbers of bytes,
\* both buffers are prefixes of the input, two ShowAll decisions carry the same
\* buffer, and the variant is the same when the input has no escape lead-in.
C5_SplitIndependentPart ==
    both_decided =>
        /\ IsPrefix(result.buf, input) /\ IsPrefix(first.buf, input)
        /\ (result.tag = "All" /\ first.tag = "All") => result.buf = first.buf
        /\ no_escape_lead_in => result.tag = first.tag

C5_Witness ==
    /\ both_decided
    /\ result.tag = "Part" /\ first.tag = "Part"
    /\ Len(result.buf) > Len(first.buf) /\ Len(first.buf) > 0
    /\ no_escape_lead_in

\* C6: when a write to the pager fails with broken pipe, the wrapper exits
\* without a diagnostic, writes nothing more, and its exit code is the
\* pager's exit code (1 when the pager has none).
C6_BrokenPipeExitsWithPagerCode ==
    (pc = "done" /\ exitVia = "return" /\ pager = "exited") =>
        /\ stderr = "none"
        /\ exitCode = <<IF pagerCode = <<>> THEN 1 ELSE pagerCode[1]>>

\* C7: once the pager is spawned, the wrapper never exits before the pager
\* has terminated.
C7_ExitAfterPager ==
    (exitCode # <<>> /\ pager # "none") => pager = "exited"

waited_for_pager == pc = "done" /\ result.tag = "Part" /\ lastRead = "eof"

C8_Order ==
    /\ pc = "wait" => pipeW = "closed"
    /\ pc = "drop_stdin" => (pipeW = "open" /\ pos = Len(input) /\ exitCode = <<>>)
    /\ waited_for_pager =>
         /\ pager = "exited" /\ pipeW = "closed" /\ pos = Len(input)
         /\ exitCode = <<IF pagerCode = <<>> THEN 1 ELSE pagerCode[1]>>

\* C8: after the source is exhausted on the Page path the wrapper closes the
\* pipe, then waits for the pager, then exits with the pager's code, or 1 when
\* the pager has none; the wait never starts with the pipe open, and a pager
\* that exits at end of input lets the wrapper exit.
C8_CloseWaitExit ==
    /\ []C8_Order
    /\ (pc = "wait") ~> (pc = "done" /\ exitVia = "exit")

flush_reported == result.tag = "Err" /\ stderr = "Could not read from file"

\* C9: when a read fails while the prefix is filled, read_prefix returns
\* exactly the bytes read before the failure, and once the failure is reported
\* those bytes are on standard output; stated for the runs in which write_all
\* on standard output returned Ok.
C9_FlushedBeforeReport ==
    flush_reported =>
        /\ result.buf = SubSeq(input, 1, pos)
        /\ stdoutWrite = "ok" => stdout = result.buf

\* C10: every read failure other than Interrupted ends the process with a
\* non-zero status after the cause was reported on the error stream; direct
\* display without failure exits with 0.
C10_ReadFailureIsFatal ==
    /\ (pc = "done" /\ lastRead = "error") =>
          (exitCode # <<0>> /\ stderr = "Could not read from file")
    /\ (pc = "done" /\ result.tag = "All" /\ stdoutWrite = "ok") => exitCode = <<0>>

\* C11: without terminal geometry read_prefix returns Contents::Part with an
\* empty buffer and has read nothing from the source, so the streaming loop
\* delivers the whole input to the pager.
C11_NoGeometryPagesEverything ==
    (geom = NoGeometry /\ pc \notin {"open", "read_prefix"}
                       /\ stderr # "Could not open file") =>
        /\ result = Part(<<>>)
        /\ buf = vec_zeros(0) /\ len = 0
        /\ pc \in {"match", "spawn", "write_prefix"} => (pos = 0 /\ lastRead = "none")
        /\ pc = "stream" => pagerIn = SubSeq(input, 1, pos)
        /\ streamed_to_end => pagerIn = input

C11_Witness ==
    /\ geom = NoGeometry /\ exitVia = "exit"
    /\ Len(input) >= 2 /\ pagerIn = input

\* ------------------------------------------------ the functions on their own
\* bytes of the arguments: both lead-ins, '[', 0x9b, a digit, ';', 'm', a
\* newline and a letter
LineAlphabet ==
    {ESC, CSI_FIRST, LBRACKET, CSI_SECOND, DIGIT_0, SEMICOLON, LOWER_M, NEWLINE, LOWER_A}

RECURSIVE LinesUpTo(_)
LinesUpTo(n) ==
    IF n = 0 THEN {<<>>}
    ELSE LET S == LinesUpTo(n - 1)
         IN  S \cup {Append(s, b) : s \in {t \in S : Len(t) = n - 1}, b \in LineAlphabet}

InitFn ==
    /\ input = <<>>
    /\ geom = NoGeometry
    /\ sigint = "default" /\ sigchld = "default"
    /\ endless = FALSE
    /\ InitProgram
    /\ line \in LinesUpTo(MaxLineLen)
    /\ vlen = 0 /\ rows = <<>> /\ fpc = "in"

fnFrame ==
    /\ UNCHANGED <<input, geom, endless, line, sigint, sigchld, first>>
    /\ UNCHANGED readerVars /\ UNCHANGED outVars /\ UNCHANGED pagerVars
    /\ UNCHANGED pc

\* visible_length(line)
CallVisibleLength ==
    /\ fpc = "in"
    /\ vlen' = visible_length(line)
    /\ fpc' = "vl"
    /\ UNCHANGED rows
    /\ fnFrame

\* lines_used(line, w) for every width w
CallLinesUsed ==
    /\ fpc = "vl"
    /\ rows' = [w \in 1..MaxCols |-> lines_used(line, w)]
    /\ fpc' = "done"
    /\ UNCHANGED vlen
    /\ fnFrame

NextFn == CallVisibleLength \/ CallLinesUsed

SpecFn == InitFn /\ [][NextFn]_vars

is_param(c) == c \in DIGIT_0..DIGIT_9 \/ c = SEMICOLON
is_lead_in(l, i) ==
    /\ i + 1 <= Len(l)
    /\ \/ (l[i] = ESC /\ l[i + 1] = LBRACKET)
       \/ (l[i] = CSI_FIRST /\ l[i + 1] = CSI_SECOND)

\* first index from j on whose byte is not a digit or ';' (Len + 1 if none)
RECURSIVE param_end(_, _)
param_end(l, j) ==
    IF j > Len(l) THEN j
    ELSE IF is_param(l[j]) THEN param_end(l, j + 1) ELSE j

\* length of the complete SGR sequence that starts at index i, 0 if none does
sgr_at(l, i) ==
    IF ~is_lead_in(l, i) THEN 0
    ELSE LET j == param_end(l, i + 2)
         IN  IF j <= Len(l) /\ l[j] = LOWER_M THEN j - i + 1 ELSE 0

\* bytes in the complete SGR sequences that occur in l, wherever they start
RECURSIVE sgr_bytes_anywhere(_, _)
sgr_bytes_anywhere(l, i) ==
    IF i > Len(l) THEN 0
    ELSE IF sgr_at(l, i) > 0 THEN sgr_at(l, i) + sgr_bytes_anywhere(l, i + sgr_at(l, i))
    ELSE sgr_bytes_anywhere(l, i + 1)

\* bytes in the SGR sequences met by a scan in which the byte that ends a
\* failed sequence is taken as text with it and starts nothing
RECURSIVE sgr_bytes_scanned(_, _)
sgr_bytes_scanned(l, i) ==
    IF i > Len(l) THEN 0
    ELSE IF l[i] \notin {ESC, CSI_FIRST} THEN sgr_bytes_scanned(l, i + 1)
    ELSE IF ~is_lead_in(l, i) THEN sgr_bytes_scanned(l, i + 2)
    ELSE LET j == param_end(l, i + 2)
         IN  IF j > Len(l) THEN 0
             ELSE IF l[j] = LOWER_M THEN (j - i + 1) + sgr_bytes_scanned(l, j + 1)
             ELSE sgr_bytes_scanned(l, j + 1)

no_newline(l) == \A i \in 1..Len(l) : l[i] # NEWLINE
vl_computed == fpc \in {"vl", "done"}

\* C12 (as stated): for a byte string without a newline, visible_length is the
\* byte length minus the bytes of the complete SGR sequences in it.
C12_LengthMinusSgr ==
    (vl_computed /\ no_newline(line)) =>
        vlen = Len(line) - sgr_bytes_anywhere(line, 1)

\* C12 (amended): visible_length is the byte length minus the bytes of the
\* SGR sequences met by the left-to-right scan, where the byte that ends a
\* failed sequence counts as text and cannot start a sequence; a string with
\* no lead-in byte has its byte length.
C12_LengthMinusScannedSgr ==
    (vl_computed /\ no_newline(line)) =>
        /\ vlen = Len(line) - sgr_bytes_scanned(line, 1)
        /\ (\A i \in 1..Len(line) : line[i] \notin {ESC, CSI_FIRST}) => vlen = Len(line)

C12_Witness ==
    /\ vl_computed /\ no_newline(line)
    /\ Len(line) = 4 /\ line[1] = LOWER_A /\ vlen = 1

\* the segments of l between newlines, taken by index: a segment starts after
\* index s (0 or the index of a newline) and ends before the next newline
segment_starts(l) == {0} \cup {i \in 1..Len(l) : l[i] = NEWLINE}
segment_after(l, s) ==
    LET later == {i \in 1..Len(l) : l[i] = NEWLINE /\ i > s}
        e == IF later = {} THEN Len(l) + 1
             ELSE CHOOSE i \in later : \A k \in later : i <= k
    IN  SubSeq(l, s + 1, e - 1)

RECURSIVE sum_over(_, _, _)
sum_over(S, l, w) ==
    IF S = {} THEN 0
    ELSE LET s == CHOOSE x \in S : TRUE
             v == visible_length(segment_after(l, s))
         IN  ((IF v >= 1 THEN v - 1 ELSE 0) \div w) + 1 + sum_over(S \ {s}, l, w)

\* C13: for every buffer and width >= 1, lines_used is the sum over the
\* newline-separated segments (a trailing newline gives a last empty segment)
\* of max(visible_length - 1, 0) / width + 1: an empty segment is one row, a
\* segment of visible length k * width is k rows, SGR sequences add no rows.
C13_RowsFormula ==
    fpc = "done" =>
        \A w \in 1..MaxCols :
            /\ rows[w] = sum_over(segment_starts(line), line, w)
            /\ no_newline(line) =>
                 /\ vlen = 0 => rows[w] = 1
                 /\ (vlen >= 1 /\ vlen % w = 0) => rows[w] = vlen \div w
            /\ sgr_bytes_scanned(line, 1) = Len(line) => rows[w] = 1

C13_Witness ==
    /\ fpc = "done" /\ Len(line) = 4
    /\ line[4] = NEWLINE /\ no_newline(SubSeq(line, 1, 3))
    /\ rows[3] = 2 /\ rows[1] = 4

\* C14: for every buffer and widths w1 <= w2, lines_used(buffer, w1) is at
\* least lines_used(buffer, w2).
C14_RowsMonotoneInWidth ==
    fpc = "done" =>
        \A w1 \in 1..MaxCols : \A w2 \in w1..MaxCols : rows[w1] >= rows[w2]

C14_Witness ==
    /\ fpc = "done"
    /\ rows[1] > rows[2] /\ rows[2] > rows[3]

\* C15: after the pager is spawned, the write end of its input pipe is closed
\* on every exit of the wrapper (normal end of the source, read failure while
\* streaming, write failure), and the wrapper never waits with it open.
C15_PipeClosedOnEveryExit ==
    /\ (exitCode # <<>> /\ pager # "none") => pipeW = "closed"
    /\ pc = "wait" => pipeW = "closed"
    /\ pipeW = "open" => pc \in {"write_prefix", "stream", "stream_write", "drop_stdin"}

C15_Witness ==
    /\ exitVia = "panic" /\ lastRead = "error"
    /\ pager = "running" /\ pipeW = "closed" /\ Len(pagerIn) > 0

\* C16: an Interrupted read changes nothing but is retried: in read_prefix
\* the buffer, the filled length and the source position stay and nothing is
\* returned; in the streaming loop nothing is written to the pager and no
\* error is raised; the wrapper stays where it was.
C16_InterruptedStep ==
    lastRead' = "interrupted" =>
        /\ pos' = pos /\ buf' = buf /\ len' = len /\ result' = result
        /\ pagerIn' = pagerIn /\ stdout' = stdout /\ stderr' = stderr
        /\ exitCode' = exitCode /\ pc' = pc

C16_InterruptedIsRetried == [][C16_InterruptedStep]_vars

C16_Witness ==
    /\ lastRead = "interrupted" /\ pc = "loop"
    /\ len >= 1 /\ pos < Len(input)

C17_Order ==
    /\ pager # "none" => sigint = "ignore"
    /\ Len(pagerIn) > 0 => sigint = "ignore"
    /\ pc = "spawn" => (sigint = "ignore" /\ pager = "none")

C17_OnlyOnPagePath ==
    sigint' # sigint =>
        /\ pc = "match" /\ result.tag = "Part" /\ pager = "none" /\ pagerIn = <<>>
        /\ sigint' = "ignore" /\ pc' = "spawn"

\* C17: SIGINT is set to ignore only on the Page path and before the pager is
\* spawned: a spawned pager and any byte on its input imply the ignore
\* disposition, and the disposition the process started with changes only in
\* the step that follows a Contents::Part, never after Contents::All or a
\* failed prefix read.
C17_IgnoreBeforeSpawn == []C17_Order /\ [][C17_OnlyOnPagePath]_vars

C17_Witness ==
    /\ pager = "running" /\ sigint = "ignore" /\ Len(pagerIn) > 0

\* C18: for every 16-bit width and height the block used for the first
\* allocation and for each extension is the exact product
\* width * max(height - 3, 0): the multiplication neither wraps nor fails, and
\* with width >= 1 and height >= 4 every read gets a non-empty unfilled tail.
C18_BlockIsExactProduct ==
    /\ stderr # "attempt to multiply with overflow"
    /\ (pc = "loop" /\ known_geometry) =>
          /\ \E k \in 1..(len + 1) : vec_len(buf) = k * (width * usable_height(height))
          /\ len = 0 => vec_len(buf) = width * usable_height(height)
          /\ (width >= 1 /\ height >= 4) => vec_len(buf) - len >= 1

\* C20: while read_prefix runs, the filled length is at most the allocated
\* length, equals the number of bytes read from the source, and the filled
\* part holds those bytes in order; on every exit (All, Part, Err) the buffer
\* handed off has exactly the filled length and holds exactly the bytes read,
\* without the zero tail.
C20_BufferIsWhatWasRead ==
    /\ pc = "loop" =>
          /\ len <= vec_len(buf) /\ len = pos
          /\ slice_to(buf, len) = SubSeq(input, 1, pos)
    /\ (result.tag # "None" /\ known_geometry) =>
          /\ Len(result.buf) = len
          /\ result.buf = SubSeq(input, 1, len)
          /\ vec_len(buf) = len
          /\ pc = "match" => len = pos

C20_Witness ==
    /\ pc = "match" /\ known_geometry /\ result.tag = "All"
    /\ Len(result.buf) >= 2
    /\ width * usable_height(height) > Len(result.buf)

\* ------------------------------------------------ read_prefix on any source
InitReader ==
    /\ input \in Inputs
    /\ geom \in Geometries \cup {NoGeometry}
    /\ endless \in BOOLEAN
    /\ endless => input # <<>>
    /\ sigint = "default" /\ sigchld = "default"
    /\ InitProgram
    /\ InitNoCall

\* read_prefix is entered, and a read returns data or the end of the source
\* after finitely many interruptions; a read error may or may not come
ReadPrefixEnter == ReadPrefixNoGeometry \/ ReadPrefixAlloc \/ ReadPrefixMulPanic
ReadPrefixReturn ==
    ReadPrefixPart \/ ReadPrefixEof \/ \E n \in 1..MaxLen : ReadPrefixData(n)

SpecReader ==
    /\ InitReader /\ [][OpenOk \/ ReadPrefixStep]_vars
    /\ WF_vars(ReadPrefixEnter) /\ WF_vars(ReadPrefixReturn)

in_read_prefix == pc \in {"read_prefix", "loop"}

\* the content of an endless source confirms more than one screen: its
\* prefixes need more than usable_height rows from some length on, here at the
\* latest at MaxFill bytes, as far as the source is followed
confirms_screen ==
    \/ geom = NoGeometry
    \/ lines_used(source_bytes(0, MaxFill), width) > usable_height(height)

\* C19: read_prefix ends with a decision or an error for every source that is
\* finite or whose content confirms more than one screen, provided reads are
\* not interrupted forever, also when the source never ends.
C19_ReadPrefixTerminates ==
    (in_read_prefix /\ (~endless \/ confirms_screen)) ~> ~in_read_prefix

C19_Witness ==
    /\ endless /\ known_geometry
    /\ pc = "match" /\ result.tag = "Part"
    /\ len > Len(input) /\ lastRead = "data"

====
